---- MODULE Spec2Model ----
(***************************************************************************)
(* A model of PyAddressSet: Address, AddressRange, the red-black tree      *)
(* (RBNode, RedBlackTree) and AddressSet of address_set.py.                *)
(*                                                                         *)
(* An Address is its integer offset.  A tree is a record holding the id of *)
(* its root and a function from node ids to node records; node id 0 is the *)
(* tree's nil sentinel, and insert gives the k-th inserted node the id k.  *)
(* The program holds two AddressSet objects, sets["A"] and sets["B"], and   *)
(* "last" records the last call made on them and the object it returned.   *)
(* Each is constructed empty or from one range; ranges are then added to A.*)
(***************************************************************************)
EXTENDS Integers, Sequences, FiniteSets, TLC

VARIABLES sets, last

vars == <<sets, last>>

(* ---- bounds of the model ---- *)

\* addresses are the offsets 0..MaxAddr
MaxAddr == 2

\* a range is added only while the two sets together hold fewer than
\* MaxNodes tree nodes
MaxNodes == 3

Addr == 0..MaxAddr

(* ---- Address ---- *)

\* Address.next
next(a) == a + 1

\* Address.previous
previous(a) == a - 1

\* Address.subtract
subtract(a, b) == a - b

\* max / min of two Address values, as intersect uses them
max(a, b) == IF b > a THEN b ELSE a

min(a, b) == IF b < a THEN b ELSE a

(* ---- AddressRange ---- *)

\* a constructor that swaps the ends instead of raising (a variant of
\* AddressRange that C10 must tell from it)
AddressRange_swap(start, end) ==
  [err |-> "none", start |-> min(start, end), end |-> max(start, end)]

\* AddressRange.__init__: the outcome of the constructor call, either the
\* ValueError it raises or the constructed range
AddressRange(start, end) ==
  IF end < start
    THEN [err |-> "ValueError", start |-> start, end |-> end]
    ELSE [err |-> "none", start |-> start, end |-> end]

\* AddressRange.contains
range_contains(r, a) == r.start <= a /\ a <= r.end

get_min_address(r) == r.start

get_max_address(r) == r.end

\* AddressRange.get_length
get_length(r) == r.end - r.start + 1

(* ---- RBNode ---- *)

RED == TRUE

BLACK == FALSE

\* Python's None, where a node id or an Address is expected
None == -1

\* RBNode.__init__
RBNode(key, value, nil) ==
  [key |-> key, value |-> value, color |-> RED,
   left |-> nil, right |-> nil, parent |-> nil]

(* ---- RedBlackTree ---- *)

\* the id of the sentinel self.nil
NIL == 0

\* RedBlackTree.__init__
RedBlackTree ==
  [root |-> NIL,
   node |-> (NIL :> [key |-> None, value |-> None, color |-> BLACK,
                     left |-> NIL, right |-> NIL, parent |-> NIL])]

\* the ids of the real (non-sentinel) nodes of a tree
NodeIds(t) == DOMAIN t.node \ {NIL}

\* RedBlackTree.left_rotate, statement by statement, each on the tree the
\* statement before it left; y is x.right as read on entry
lr_take_child(t, x, y) == [t EXCEPT !.node[x].right = t.node[y].left]

\* a y.left.parent = x that is not guarded by y.left != self.nil (a variant
\* of lr_child_parent that C18 must tell from it)
lr_child_parent_unguarded(t, x, y) ==
  [t EXCEPT !.node[t.node[y].left].parent = x]

lr_child_parent(t, x, y) ==
  IF t.node[y].left # NIL
    THEN [t EXCEPT !.node[t.node[y].left].parent = x]
    ELSE t

lr_y_parent(t, x, y) == [t EXCEPT !.node[y].parent = t.node[x].parent]

lr_replace(t, x, y) ==
  IF t.node[x].parent = NIL
    THEN [t EXCEPT !.root = y]
    ELSE IF x = t.node[t.node[x].parent].left
           THEN [t EXCEPT !.node[t.node[x].parent].left = y]
           ELSE [t EXCEPT !.node[t.node[x].parent].right = y]

lr_y_left(t, x, y) == [t EXCEPT !.node[y].left = x]

lr_x_parent(t, x, y) == [t EXCEPT !.node[x].parent = y]

left_rotate_xy(t, x, y) ==
  lr_x_parent(lr_y_left(lr_replace(lr_y_parent(lr_child_parent(
    lr_take_child(t, x, y), x, y), x, y), x, y), x, y), x, y)

left_rotate(t, x) == left_rotate_xy(t, x, t.node[x].right)

\* RedBlackTree.right_rotate, statement by statement; x is y.left as read
\* on entry
rr_take_child(t, y, x) == [t EXCEPT !.node[y].left = t.node[x].right]

rr_child_parent(t, y, x) ==
  IF t.node[x].right # NIL
    THEN [t EXCEPT !.node[t.node[x].right].parent = y]
    ELSE t

rr_x_parent(t, y, x) == [t EXCEPT !.node[x].parent = t.node[y].parent]

rr_replace(t, y, x) ==
  IF t.node[y].parent = NIL
    THEN [t EXCEPT !.root = x]
    ELSE IF y = t.node[t.node[y].parent].right
           THEN [t EXCEPT !.node[t.node[y].parent].right = x]
           ELSE [t EXCEPT !.node[t.node[y].parent].left = x]

rr_x_right(t, y, x) == [t EXCEPT !.node[x].right = y]

rr_y_parent(t, y, x) == [t EXCEPT !.node[y].parent = x]

right_rotate_yx(t, y, x) ==
  rr_y_parent(rr_x_right(rr_replace(rr_x_parent(rr_child_parent(
    rr_take_child(t, y, x), y, x), y, x), y, x), y, x), y, x)

right_rotate(t, y) == right_rotate_yx(t, y, t.node[y].left)

\* insert_fixup, the red-uncle branch: z.parent.color = BLACK,
\* y.color = BLACK, z.parent.parent.color = RED, z = z.parent.parent
fixup_recolor(t, z, y) ==
  [t |-> [t EXCEPT !.node[t.node[z].parent].color = BLACK,
                   !.node[y].color = BLACK,
                   !.node[t.node[t.node[z].parent].parent].color = RED],
   z |-> t.node[t.node[z].parent].parent]

\* a recolouring that leaves z.parent.parent as it is (a variant of
\* fixup_colors that C15 must tell from it)
fixup_colors_parent_only(t, z) ==
  [t EXCEPT !.node[t.node[z].parent].color = BLACK]

\* insert_fixup, the end of the black-uncle branches: z.parent.color = BLACK
\* and z.parent.parent.color = RED
fixup_colors(t, z) ==
  [t EXCEPT !.node[t.node[z].parent].color = BLACK,
            !.node[t.node[t.node[z].parent].parent].color = RED]

\* ... followed by right_rotate(z.parent.parent), resp. left_rotate
fixup_right_rotate(t, z) ==
  [t |-> right_rotate(t, t.node[t.node[z].parent].parent), z |-> z]

fixup_left_rotate(t, z) ==
  [t |-> left_rotate(t, t.node[t.node[z].parent].parent), z |-> z]

\* Python runs a statement on the tree the statement before it left: in
\* CHOOSE r \in {F(u) : u \in {e}} : TRUE, u is the value of e and r is the
\* one value F has on it

\* insert_fixup, the black-uncle branch when z.parent is a left child
fixup_left_black(t, z) ==
  IF z = t.node[t.node[z].parent].right
    THEN CHOOSE r \in
           {fixup_right_rotate(fixup_colors(u, t.node[z].parent), t.node[z].parent) :
              u \in {left_rotate(t, t.node[z].parent)}} : TRUE
    ELSE fixup_right_rotate(fixup_colors(t, z), z)

\* insert_fixup, the black-uncle branch when z.parent is a right child
fixup_right_black(t, z) ==
  IF z = t.node[t.node[z].parent].left
    THEN CHOOSE r \in
           {fixup_left_rotate(fixup_colors(u, t.node[z].parent), t.node[z].parent) :
              u \in {right_rotate(t, t.node[z].parent)}} : TRUE
    ELSE fixup_left_rotate(fixup_colors(t, z), z)

\* the uncle y, on either side
uncle_right(t, z) == t.node[t.node[t.node[z].parent].parent].right

uncle_left(t, z) == t.node[t.node[t.node[z].parent].parent].left

\* one iteration of the while loop of insert_fixup, taken when z.parent is
\* red: the tree and the z the iteration ends with
fixup_step(t, z) ==
  IF t.node[z].parent = t.node[t.node[t.node[z].parent].parent].left
    THEN IF t.node[uncle_right(t, z)].color = RED
           THEN fixup_recolor(t, z, uncle_right(t, z))
           ELSE fixup_left_black(t, z)
    ELSE IF t.node[uncle_left(t, z)].color = RED
           THEN fixup_recolor(t, z, uncle_left(t, z))
           ELSE fixup_right_black(t, z)

\* the while loop of insert_fixup from the state s = [t, z], and the final
\* self.root.color = BLACK
RECURSIVE fixup_loop(_)
fixup_loop(s) ==
  IF s.t.node[s.t.node[s.z].parent].color = RED
    THEN CHOOSE r \in {fixup_loop(u) : u \in {fixup_step(s.t, s.z)}} : TRUE
    ELSE [s.t EXCEPT !.node[s.t.root].color = BLACK]

\* RedBlackTree.insert_fixup
insert_fixup(t, z) == fixup_loop([t |-> t, z |-> z])

\* a descent that stays on a node whose key equals the new key (a variant
\* of descend_child that C20 must tell from it)
descend_child_stay(t, key, x) ==
  IF key < t.node[x].key THEN t.node[x].left
  ELSE IF key = t.node[x].key THEN x
  ELSE t.node[x].right

\* one iteration of the descent loop of insert: the x it moves to
descend_child(t, key, x) ==
  IF key < t.node[x].key THEN t.node[x].left ELSE t.node[x].right

\* the descent loop of insert: the y the loop ends with, from x and y
RECURSIVE insert_descend(_, _, _, _)
insert_descend(t, key, x, y) ==
  IF x # NIL
    THEN insert_descend(t, key, descend_child(t, key, x), x)
    ELSE y

\* insert: z = RBNode(key, value, self.nil); the new node's id is z
insert_new(t, key, value, z) ==
  [t EXCEPT !.node = t.node @@ (z :> RBNode(key, value, NIL))]

\* a linking that treats a key equal to that of y as already stored and
\* links no node for it (a variant of insert_link that C19 must tell from it)
insert_link_unique(t, z, y) ==
  IF y = NIL
    THEN [t EXCEPT !.node[z].parent = y, !.root = z]
    ELSE IF t.node[z].key < t.node[y].key
           THEN [t EXCEPT !.node[z].parent = y, !.node[y].left = z]
           ELSE IF t.node[z].key = t.node[y].key
                  THEN [t EXCEPT !.node[z].parent = y]
                  ELSE [t EXCEPT !.node[z].parent = y, !.node[y].right = z]

\* insert, after the descent ended at y: z.parent = y, then z becomes the
\* root or a child of y
insert_link(t, z, y) ==
  IF y = NIL
    THEN [t EXCEPT !.node[z].parent = y, !.root = z]
    ELSE IF t.node[z].key < t.node[y].key
           THEN [t EXCEPT !.node[z].parent = y, !.node[y].left = z]
           ELSE [t EXCEPT !.node[z].parent = y, !.node[y].right = z]

\* insert: z.left = z.right = self.nil, z.color = RED
insert_leaf(t, z) ==
  [t EXCEPT !.node[z].left = NIL, !.node[z].right = NIL, !.node[z].color = RED]

insert_at(t, z) ==
  CHOOSE r \in
    {insert_fixup(u, z) :
       u \in {insert_leaf(
                insert_link(t, z, insert_descend(t, t.node[z].key, t.root, NIL)),
                z)}} : TRUE

\* RedBlackTree.insert
insert(t, key, value) ==
  insert_at(insert_new(t, key, value, Cardinality(DOMAIN t.node)),
            Cardinality(DOMAIN t.node))

\* RedBlackTree.inorder: the node ids in the order the generator yields them
RECURSIVE inorder_from(_, _)
inorder_from(t, n) ==
  IF n # NIL
    THEN inorder_from(t, t.node[n].left) \o <<n>> \o inorder_from(t, t.node[n].right)
    ELSE <<>>

inorder(t) == inorder_from(t, t.root)

\* a search that goes right also when a equals the node's value (a variant
\* of find_from that C17 must tell from it)
RECURSIVE find_from_strict(_, _, _)
find_from_strict(t, n, a) ==
  IF n # NIL
    THEN IF a < t.node[n].key
           THEN find_from_strict(t, t.node[n].left, a)
           ELSE IF a >= t.node[n].value
                  THEN find_from_strict(t, t.node[n].right, a)
                  ELSE n
    ELSE None

\* RedBlackTree.find_range_containing: the id of the node found, or None
RECURSIVE find_from(_, _, _)
find_from(t, n, a) ==
  IF n # NIL
    THEN IF a < t.node[n].key
           THEN find_from(t, t.node[n].left, a)
           ELSE IF a > t.node[n].value
                  THEN find_from(t, t.node[n].right, a)
                  ELSE n
    ELSE None

find_range_containing(t, a) == find_from(t, t.root, a)

(* ---- AddressSet ---- *)

\* an add that counts end - start (a variant of add that C2 must tell from it)
add_nolength(S, r) ==
  [tree |-> insert(S.tree, r.start, r.end),
   address_count |-> S.address_count + (r.end - r.start)]

\* AddressSet.add
add(S, r) ==
  [tree |-> insert(S.tree, r.start, r.end),
   address_count |-> S.address_count + get_length(r)]

\* AddressSet.__init__; the Optional init_range is <<>> for None and <<r>>
\* for the AddressRange r
AddressSet(init_range) ==
  LET S == [tree |-> RedBlackTree, address_count |-> 0]
  IN  IF init_range # <<>> THEN add(S, init_range[1]) ELSE S

\* AddressSet.contains(Address)
contains(S, a) == find_range_containing(S.tree, a) # None

\* AddressSet.get_address_ranges: the ranges in the order the generator
\* yields them, each built by the AddressRange constructor
ranges_of(t, ns) ==
  [k \in 1..Len(ns) |-> AddressRange(t.node[ns[k]].key, t.node[ns[k]].value)]

get_address_ranges(S) == ranges_of(S.tree, inorder(S.tree))

\* AddressSet.get_num_addresses
get_num_addresses(S) == S.address_count

\* AddressSet.contains(Address, Address): the per-address loop from addr on
RECURSIVE contains_from(_, _, _)
contains_from(S, addr, end) ==
  IF addr <= end
    THEN IF ~contains(S, addr) THEN FALSE ELSE contains_from(S, next(addr), end)
    ELSE TRUE

contains_range(S, start, end) == contains_from(S, start, end)

\* AddressSet.contains(AddressSetView)
contains_ranges(S, rs) ==
  \A k \in 1..Len(rs) :
    contains_range(S, get_min_address(rs[k]), get_max_address(rs[k]))

contains_set(S, other) == contains_ranges(S, get_address_ranges(other))

\* the arguments a call of contains is made with: an Address, an AddressSet
\* object of the program, or a plain int (neither Address nor AddressSetView)
AddressArg(x) == [type |-> "Address", offset |-> x]

SetArg(o) == [type |-> "AddressSet", obj |-> o]

IntArg == [type |-> "int"]

\* isinstance(arg, Address), isinstance(arg, AddressSetView)
is_Address(arg) == arg.type = "Address"

is_AddressSetView(arg) == arg.type = "AddressSet"

\* what a call returns or raises
Returns(v) == [err |-> "none", res |-> <<v>>]

Raises(e) == [err |-> e, res |-> <<>>]

\* a contains that answers False to arguments it does not support (a variant
\* of contains_args that C11 must tell from it)
contains_args_false(S, args, objs) ==
  IF Len(args) = 1 /\ is_Address(args[1])
    THEN Returns(contains(S, args[1].offset))
    ELSE IF Len(args) = 2 /\ \A i \in 1..2 : is_Address(args[i])
           THEN Returns(contains_range(S, args[1].offset, args[2].offset))
           ELSE IF Len(args) = 1 /\ is_AddressSetView(args[1])
                  THEN Returns(contains_set(S, objs[args[1].obj]))
                  ELSE Returns(FALSE)

\* AddressSet.contains(*args): the dispatch on the number and the types of
\* the arguments; objs maps the names of the program's objects to the sets
contains_args(S, args, objs) ==
  IF Len(args) = 1 /\ is_Address(args[1])
    THEN Returns(contains(S, args[1].offset))
    ELSE IF Len(args) = 2 /\ \A i \in 1..2 : is_Address(args[i])
           THEN Returns(contains_range(S, args[1].offset, args[2].offset))
           ELSE IF Len(args) = 1 /\ is_AddressSetView(args[1])
                  THEN Returns(contains_set(S, objs[args[1].obj]))
                  ELSE Raises("TypeError")

\* result.add(r) for every r of rs from index k on, in order
RECURSIVE add_all(_, _, _)
add_all(result, rs, k) ==
  IF k <= Len(rs)
    THEN CHOOSE r \in {add_all(u, rs, k + 1) : u \in {add(result, rs[k])}} : TRUE
    ELSE result

\* AddressSet.union
union(self, other) ==
  CHOOSE r \in
    {add_all(u, get_address_ranges(other), 1) :
       u \in {add_all(AddressSet(<<>>), get_address_ranges(self), 1)}} : TRUE

\* a loop body that tests start < end (a variant of intersect_pair that C8
\* must tell from it)
intersect_pair_strict(result, r1, r2) ==
  LET start == max(get_min_address(r1), get_min_address(r2))
      end   == min(get_max_address(r1), get_max_address(r2))
  IN  IF start < end THEN add(result, AddressRange(start, end)) ELSE result

\* the body of the two nested loops of intersect for the pair (r1, r2)
intersect_pair(result, r1, r2) ==
  LET start == max(get_min_address(r1), get_min_address(r2))
      end   == min(get_max_address(r1), get_max_address(r2))
  IN  IF start <= end THEN add(result, AddressRange(start, end)) ELSE result

\* the inner loop of intersect for r1, from the range rs2[j] on
RECURSIVE intersect_row(_, _, _, _)
intersect_row(result, r1, rs2, j) ==
  IF j <= Len(rs2)
    THEN CHOOSE r \in
           {intersect_row(u, r1, rs2, j + 1) :
              u \in {intersect_pair(result, r1, rs2[j])}} : TRUE
    ELSE result

\* the outer loop of intersect, from the range rs1[i] on
RECURSIVE intersect_loop(_, _, _, _)
intersect_loop(result, rs1, rs2, i) ==
  IF i <= Len(rs1)
    THEN CHOOSE r \in
           {intersect_loop(u, rs1, rs2, i + 1) :
              u \in {intersect_row(result, rs1[i], rs2, 1)}} : TRUE
    ELSE result

\* AddressSet.intersect
intersect(self, other) ==
  intersect_loop(AddressSet(<<>>), get_address_ranges(self),
                 get_address_ranges(other), 1)

(* ---- AddressSetView (address_set_view.py) ---- *)

\* a.compare_to(other) for an Address a that a range of an AddressSet holds:
\* the class Address of address_set.py defines __lt__, __le__, __eq__, next,
\* previous and subtract but no compare_to, so the attribute lookup raises
compare_to(a, other) == Raises("AttributeError")

\* AddressSet() of address_set_view.py: an object without attributes
stub_AddressSet == [class |-> "address_set_view.AddressSet"]

\* AddressSet.add(*args) of address_set_view.py: its body is pass
stub_add(S, args) == S

\* the loop of trim_start from the range rs[k] on
RECURSIVE trim_start_loop(_, _, _, _)
trim_start_loop(trimmed_set, rs, k, addr) ==
  IF k > Len(rs) THEN Returns(trimmed_set)
  ELSE IF compare_to(get_min_address(rs[k]), addr).err # "none"
    THEN Raises(compare_to(get_min_address(rs[k]), addr).err)
  ELSE IF compare_to(get_min_address(rs[k]), addr).res[1] > 0
    THEN trim_start_loop(stub_add(trimmed_set, <<rs[k]>>), rs, k + 1, addr)
  ELSE IF compare_to(get_max_address(rs[k]), addr).err # "none"
    THEN Raises(compare_to(get_max_address(rs[k]), addr).err)
  ELSE IF compare_to(get_max_address(rs[k]), addr).res[1] > 0
    THEN trim_start_loop(
           stub_add(trimmed_set, <<next(addr), get_max_address(rs[k])>>),
           rs, k + 1, addr)
  ELSE trim_start_loop(trimmed_set, rs, k + 1, addr)

\* AddressSetView.trim_start(set_, addr)
trim_start(set_, addr) ==
  trim_start_loop(stub_AddressSet, get_address_ranges(set_), 1, addr)

\* the loop of trim_end from the range rs[k] on
RECURSIVE trim_end_loop(_, _, _, _)
trim_end_loop(trimmed_set, rs, k, addr) ==
  IF k > Len(rs) THEN Returns(trimmed_set)
  ELSE IF compare_to(get_max_address(rs[k]), addr).err # "none"
    THEN Raises(compare_to(get_max_address(rs[k]), addr).err)
  ELSE IF compare_to(get_max_address(rs[k]), addr).res[1] < 0
    THEN trim_end_loop(stub_add(trimmed_set, <<rs[k]>>), rs, k + 1, addr)
  ELSE IF compare_to(get_min_address(rs[k]), addr).err # "none"
    THEN Raises(compare_to(get_min_address(rs[k]), addr).err)
  ELSE IF compare_to(get_min_address(rs[k]), addr).res[1] < 0
    THEN trim_end_loop(
           stub_add(trimmed_set, <<get_min_address(rs[k]), previous(addr)>>),
           rs, k + 1, addr)
  ELSE trim_end_loop(trimmed_set, rs, k + 1, addr)

\* AddressSetView.trim_end(set_, addr)
trim_end(set_, addr) ==
  trim_end_loop(stub_AddressSet, get_address_ranges(set_), 1, addr)

\* the loop of get_address_count_before from the range rs[k] on
RECURSIVE count_before_loop(_, _, _, _)
count_before_loop(count, rs, k, address) ==
  IF k > Len(rs) THEN Returns(count)
  ELSE IF compare_to(get_min_address(rs[k]), address).err # "none"
    THEN Raises(compare_to(get_min_address(rs[k]), address).err)
  ELSE IF compare_to(get_min_address(rs[k]), address).res[1] > 0
    THEN Returns(count)
  ELSE IF range_contains(rs[k], address)
    THEN Returns(count + subtract(address, get_min_address(rs[k])))
  ELSE count_before_loop(count + get_length(rs[k]), rs, k + 1, address)

\* AddressSetView.get_address_count_before(self, address), called on an
\* AddressSet of address_set.py
get_address_count_before(self, address) ==
  count_before_loop(0, get_address_ranges(self), 1, address)

(* ---- the program's state and its operations ---- *)

\* the two AddressSet objects the program holds
Objs == {"A", "B"}

\* the objects add is called on; B stays as its constructor left it, with
\* no range or one (this keeps the state space small, as the bounds do)
Added == {"A"}

\* the number of tree nodes of a set
Size(S) == Cardinality(NodeIds(S.tree))

\* the sets a constructor call returns: AddressSet() and
\* AddressSet(AddressRange(Address(start), Address(end)))
Constructed ==
  {AddressSet(<<>>)} \cup
  {AddressSet(<<AddressRange(se[1], se[2])>>) :
     se \in {p \in Addr \X Addr : AddressRange(p[1], p[2]).err = "none"}}

\* what the last call was: its name, the objects it was called on and with,
\* the arguments of the AddressRange it constructed, the error it raised,
\* and the object it returned (<<>> when it returned none)
Call(op, a, b, start, end, err, res) ==
  [op |-> op, a |-> a, b |-> b, start |-> start, end |-> end,
   err |-> err, res |-> res]

Init ==
  /\ sets \in [Objs -> Constructed]
  /\ last = Call("new", "-", "-", None, None, "none", <<>>)

\* AddressRange(Address(start), Address(end)) raises: the call that was to
\* take the range is never made
RangeError(start, end) ==
  /\ AddressRange(start, end).err # "none"
  /\ UNCHANGED sets
  /\ last' = Call("AddressRange", "-", "-", start, end,
                  AddressRange(start, end).err, <<>>)

\* sets[a].add(AddressRange(Address(start), Address(end)))
Add(a, start, end) ==
  /\ Size(sets["A"]) + Size(sets["B"]) < MaxNodes
  /\ AddressRange(start, end).err = "none"
  /\ sets' = [sets EXCEPT ![a] = add(sets[a], AddressRange(start, end))]
  /\ last' = Call("add", a, "-", start, end, "none", <<>>)

\* a union that adds the ranges of sets[b] to sets[a] itself (a variant of
\* Union that C9 must tell from it)
Union_inplace(a, b) ==
  /\ sets' = [sets EXCEPT ![a] = add_all(sets[a], get_address_ranges(sets[b]), 1)]
  /\ last' = Call("union", a, b, None, None, "none", <<sets'[a]>>)

\* sets[a].union(sets[b])
Union(a, b) ==
  /\ UNCHANGED sets
  /\ last' = Call("union", a, b, None, None, "none", <<union(sets[a], sets[b])>>)

\* sets[a].intersect(sets[b])
Intersect(a, b) ==
  /\ UNCHANGED sets
  /\ last' = Call("intersect", a, b, None, None, "none",
                  <<intersect(sets[a], sets[b])>>)

Next ==
  \/ \E start, end \in Addr : RangeError(start, end)
  \/ \E a \in Added : \E start, end \in Addr : Add(a, start, end)
  \/ \E a, b \in Objs : Union(a, b)
  \/ \E a, b \in Objs : Intersect(a, b)

Spec == Init /\ [][Next]_vars

(* ---- the program that queries its sets ---- *)

\* the argument tuples contains is called with: every supported combination
\* over the addresses and the objects, and unsupported ones (no argument, an
\* int, an Address with an int, three Addresses, two sets, a set with an
\* Address)
ArgTuples ==
  {<<AddressArg(x)>> : x \in Addr} \cup
  {<<AddressArg(p[1]), AddressArg(p[2])>> : p \in Addr \X Addr} \cup
  {<<SetArg(o)>> : o \in Objs} \cup
  {<<>>, <<IntArg>>, <<AddressArg(0), IntArg>>, <<IntArg, AddressArg(0)>>,
   <<AddressArg(0), AddressArg(0), AddressArg(0)>>,
   <<SetArg("B"), SetArg("B")>>, <<SetArg("B"), AddressArg(0)>>}

\* sets[a].contains(*args); the field b of the call record holds args
Contains(a, args) ==
  /\ UNCHANGED sets
  /\ last' = Call("contains", a, args, None, None,
                  contains_args(sets[a], args, sets).err,
                  contains_args(sets[a], args, sets).res)

\* the most nodes the two sets hold together in the programs that query
MaxFew == 2

\* sets[a].add(AddressRange(Address(start), Address(end))) in a program that
\* makes few adds
AddFew(a, start, end) ==
  /\ Size(sets["A"]) + Size(sets["B"]) < MaxFew
  /\ AddressRange(start, end).err = "none"
  /\ sets' = [sets EXCEPT ![a] = add(sets[a], AddressRange(start, end))]
  /\ last' = Call("add", a, "-", start, end, "none", <<>>)

NextQuery ==
  \/ \E a \in Added : \E start, end \in Addr : AddFew(a, start, end)
  \/ \E a \in Objs : \E args \in ArgTuples : Contains(a, args)

SpecQuery == Init /\ [][NextQuery]_vars

(* ---- the program that uses the methods of AddressSetView ---- *)

\* AddressSetView.trim_start(sets[a], Address(addr))
TrimStart(a, addr) ==
  /\ UNCHANGED sets
  /\ last' = Call("trim_start", a, "-", addr, None,
                  trim_start(sets[a], addr).err, trim_start(sets[a], addr).res)

\* AddressSetView.trim_end(sets[a], Address(addr))
TrimEnd(a, addr) ==
  /\ UNCHANGED sets
  /\ last' = Call("trim_end", a, "-", addr, None,
                  trim_end(sets[a], addr).err, trim_end(sets[a], addr).res)

\* AddressSetView.get_address_count_before(sets[a], Address(addr))
CountBefore(a, addr) ==
  /\ UNCHANGED sets
  /\ last' = Call("get_address_count_before", a, "-", addr, None,
                  get_address_count_before(sets[a], addr).err,
                  get_address_count_before(sets[a], addr).res)

NextView ==
  \/ \E a \in Added : \E start, end \in Addr : AddFew(a, start, end)
  \/ \E a \in Objs : \E addr \in Addr : TrimStart(a, addr)
  \/ \E a \in Objs : \E addr \in Addr : TrimEnd(a, addr)
  \/ \E a \in Objs : \E addr \in Addr : CountBefore(a, addr)

SpecView == Init /\ [][NextView]_vars

(* ---- the program that grows one tree ---- *)

\* the most nodes the tree of the growing program holds
MaxTreeNodes == 8

InitTree ==
  /\ sets = [o \in Objs |-> AddressSet(<<>>)]
  /\ last = Call("new", "-", "-", None, None, "none", <<>>)

\* sets["A"].add(AddressRange(Address(key), Address(key))): one call of
\* RedBlackTree.insert(key, key) on the tree of A
Insert(key) ==
  /\ Size(sets["A"]) < MaxTreeNodes
  /\ sets' = [sets EXCEPT !["A"] = add(sets["A"], AddressRange(key, key))]
  /\ last' = Call("add", "A", "-", key, key, "none", <<>>)

NextTree == \E key \in Addr : Insert(key)

SpecTree == InitTree /\ [][NextTree]_vars

(* ---- the program that adds pairwise disjoint ranges ---- *)

\* the largest address of the program that adds disjoint ranges
MaxDisjAddr == 6

DisjAddr == 0..MaxDisjAddr

\* sets["A"].add(AddressRange(Address(start), Address(end))) by a caller
\* that only adds a range sharing no address with the ranges stored
InsertDisjoint(start, end) ==
  /\ AddressRange(start, end).err = "none"
  /\ \A n \in NodeIds(sets["A"].tree) :
       end < sets["A"].tree.node[n].key \/ sets["A"].tree.node[n].value < start
  /\ sets' = [sets EXCEPT !["A"] = add(sets["A"], AddressRange(start, end))]
  /\ last' = Call("add", "A", "-", start, end, "none", <<>>)

NextDisjoint == \E start, end \in DisjAddr : InsertDisjoint(start, end)

SpecDisjoint == InitTree /\ [][NextDisjoint]_vars

(* ---- the program that grows one tree, loop iteration by iteration ---- *)

\* the largest key of the program that runs insert iteration by iteration
MaxStepKey == 1

StepKeys == 0..MaxStepKey

\* the call of add in progress: pc is the loop it is in ("descend", "fixup")
\* or "done" when no call runs; key and value are the range passed; x, y and
\* z are the locals of insert and insert_fixup; steps and iters count the
\* iterations of the descent loop and of the fixup loop made by this call
Frame(pc, key, value, x, y, z, steps, iters) ==
  [op |-> "add", pc |-> pc, key |-> key, value |-> value,
   x |-> x, y |-> y, z |-> z, steps |-> steps, iters |-> iters]

InitSteps ==
  /\ sets = [o \in Objs |-> AddressSet(<<>>)]
  /\ last = Frame("done", None, None, NIL, NIL, NIL, 0, 0)

\* the tree and the id of the node the call in progress creates
StepTree == sets["A"].tree

\* add(AddressRange(Address(key), Address(key))) calls insert:
\* z = RBNode(key, value, self.nil); y = self.nil; x = self.root
Begin(key) ==
  /\ last.pc = "done"
  /\ Size(sets["A"]) < MaxTreeNodes
  /\ sets' = [sets EXCEPT !["A"].tree =
                insert_new(StepTree, key, key, Cardinality(DOMAIN StepTree.node))]
  /\ last' = Frame("descend", key, key, StepTree.root, NIL,
                   Cardinality(DOMAIN StepTree.node), 0, 0)

\* one iteration of while x != self.nil: y = x, x = x.left or x.right
DescendStep ==
  /\ last.pc = "descend"
  /\ last.x # NIL
  /\ UNCHANGED sets
  /\ last' = [last EXCEPT !.y = last.x,
                          !.x = descend_child(StepTree, last.key, last.x),
                          !.steps = last.steps + 1]

\* the descent loop has ended: z is linked under y, made a red leaf, and
\* insert_fixup(z) is entered
Link ==
  /\ last.pc = "descend"
  /\ last.x = NIL
  /\ sets' = [sets EXCEPT !["A"].tree =
                insert_leaf(insert_link(StepTree, last.z, last.y), last.z)]
  /\ last' = [last EXCEPT !.pc = "fixup"]

\* one iteration of while z.parent.color == RBNode.RED
FixupStep ==
  /\ last.pc = "fixup"
  /\ StepTree.node[StepTree.node[last.z].parent].color = RED
  /\ \E s \in {fixup_step(StepTree, last.z)} :
       /\ sets' = [sets EXCEPT !["A"].tree = s.t]
       /\ last' = [last EXCEPT !.z = s.z, !.iters = last.iters + 1]

\* the fixup loop has ended: self.root.color = BLACK, insert returns, and
\* add counts the length of the range
Return ==
  /\ last.pc = "fixup"
  /\ StepTree.node[StepTree.node[last.z].parent].color # RED
  /\ sets' = [sets EXCEPT
                !["A"].tree = [StepTree EXCEPT !.node[StepTree.root].color = BLACK],
                !["A"].address_count =
                  sets["A"].address_count + get_length(AddressRange(last.key, last.value))]
  /\ last' = [last EXCEPT !.pc = "done"]

\* the steps of a call in progress
Running == DescendStep \/ Link \/ FixupStep \/ Return

NextSteps ==
  \/ \E key \in StepKeys : Begin(key)
  \/ DescendStep
  \/ Link
  \/ FixupStep
  \/ Return

\* the caller may begin a call whenever none is in progress
SpecSteps == InitSteps /\ [][NextSteps]_vars

(* ---- vocabulary of the properties ---- *)

\* the ranges a set yields, as a sequence and as a set of <<start, end>>
Ranges(S) == get_address_ranges(S)

RangeSet(S) == {<<Ranges(S)[k].start, Ranges(S)[k].end>> : k \in 1..Len(Ranges(S))}

\* the addresses that lie inside at least one range of the sequence rs
CoveredBy(rs) == {x \in Addr : \E k \in 1..Len(rs) : range_contains(rs[k], x)}

Covered(S) == CoveredBy(Ranges(S))

\* the sum of get_length() over the ranges rs[1..k]
RECURSIVE SumLengths(_, _)
SumLengths(rs, k) == IF k = 0 THEN 0 ELSE get_length(rs[k]) + SumLengths(rs, k - 1)

\* the object the last call returned
Returned == last.res[1]

\* the step is a call of add on object o
IsAdd(o) == last'.op = "add" /\ last'.a = o /\ sets' # sets

\* the indices of the ranges of rs that overlap or are adjacent to [start, end]
Touching(rs, start, end) ==
  {k \in 1..Len(rs) : rs[k].start <= next(end) /\ next(rs[k].end) >= start}

\* smallest and largest element of a non-empty set of addresses
MinOf(X) == CHOOSE x \in X : \A y \in X : x <= y

MaxOf(X) == CHOOSE x \in X : \A y \in X : y <= x

(* ---- C1 ---- *)

\* C1: after every add, no two ranges a set yields overlap or are adjacent:
\* for two yielded ranges R1 before R2, R1.end + 1 < R2.start.
\* The code stores every added range as a node of its own, so this fails.
C1_Disjointness ==
  \A o \in Objs : \A i, j \in 1..Len(Ranges(sets[o])) :
    i < j => next(Ranges(sets[o])[i].end) < Ranges(sets[o])[j].start

(* ---- C2 ---- *)

\* C2: in every reachable state get_num_addresses() equals the sum of
\* get_length() over the ranges get_address_ranges() yields, for the two
\* sets and for a set returned by union or intersect.
C2_CountConsistency ==
  /\ \A o \in Objs :
       get_num_addresses(sets[o]) = SumLengths(Ranges(sets[o]), Len(Ranges(sets[o])))
  /\ last.res # <<>> =>
       get_num_addresses(Returned) = SumLengths(Ranges(Returned), Len(Ranges(Returned)))

\* C2 witness: add has acted on a set that now yields two overlapping ranges,
\* so the count exceeds the number of distinct addresses
C2_Witness ==
  /\ last.op = "add"
  /\ Len(Ranges(sets[last.a])) >= 2
  /\ get_num_addresses(sets[last.a]) > Cardinality(Covered(sets[last.a]))

(* ---- C3 ---- *)

\* C3: add(range) on a set whose stored ranges overlap or are adjacent to
\* range replaces them by the one range spanning min(all starts, start) ..
\* max(all ends, end), and the count is then the number of distinct
\* addresses covered.  The code never merges, so this fails.
C3_MergeOnAdd ==
  [][\A o \in Objs :
       (IsAdd(o) /\ Touching(Ranges(sets[o]), last'.start, last'.end) # {}) =>
         LET rs == Ranges(sets[o])
             T  == Touching(rs, last'.start, last'.end)
             lo == MinOf({rs[k].start : k \in T} \cup {last'.start})
             hi == MaxOf({rs[k].end : k \in T} \cup {last'.end})
         IN  /\ RangeSet(sets'[o]) =
                  (RangeSet(sets[o]) \ {<<rs[k].start, rs[k].end>> : k \in T})
                    \cup {<<lo, hi>>}
             /\ Len(Ranges(sets'[o])) = Cardinality(RangeSet(sets'[o]))
             /\ get_num_addresses(sets'[o]) = Cardinality(Covered(sets'[o]))]_vars

(* ---- C4 ---- *)

\* C4: add is idempotent: adding a range whose addresses the set already
\* covers (as the second add of add(r); add(r) does) changes neither the
\* ranges the set yields nor its count.  The code stores a second node and
\* counts the addresses again, so this fails.
C4_Idempotent ==
  [][\A o \in Objs :
       (IsAdd(o) /\ \A x \in last'.start..last'.end : x \in Covered(sets[o])) =>
         /\ Ranges(sets'[o]) = Ranges(sets[o])
         /\ get_num_addresses(sets'[o]) = get_num_addresses(sets[o])]_vars

(* ---- C5 ---- *)

\* C5: contains(a) is true if and only if a lies inside at least one range
\* that was added (every added range is a stored node, so these are the
\* ranges the set yields).  The search descends by key and misses a stored
\* range that overlaps the ones on its path, so this fails.
C5_ContainsIffAdded ==
  \A o \in Objs : \A x \in Addr : contains(sets[o], x) <=> x \in Covered(sets[o])

(* ---- C6 ---- *)

\* C6: containment is monotone under add: an address, and a set, that the
\* set contains is still contained after any further add.  A rotation can
\* move an overlapping range off the search path, so this fails.
C6_ContainmentMonotone ==
  [][\A o \in Objs :
       IsAdd(o) =>
         /\ \A x \in Addr : contains(sets[o], x) => contains(sets'[o], x)
         /\ \A p \in Objs :
              contains_set(sets[o], sets[p]) => contains_set(sets'[o], sets[p])]_vars

(* ---- C7 ---- *)

\* C7: union is commutative: union(A,B) and union(B,A) answer contains(a)
\* alike for every address a and yield the same ranges.  The results hold
\* the same ranges inserted in different orders, and contains depends on
\* the shape of the tree, so this fails.
C7_UnionCommutative ==
  \A a, b \in Objs :
    /\ \A x \in Addr :
         contains(union(sets[a], sets[b]), x) = contains(union(sets[b], sets[a]), x)
    /\ RangeSet(union(sets[a], sets[b])) = RangeSet(union(sets[b], sets[a]))

(* ---- C8 ---- *)

\* the intersection [max(starts), min(ends)] of the ranges r1 and r2, as a
\* pair, and whether the two overlap
PairMeet(r1, r2) == <<max(r1.start, r2.start), min(r1.end, r2.end)>>

Overlap(r1, r2) == max(r1.start, r2.start) <= min(r1.end, r2.end)

OverlappingPairs(rs1, rs2) ==
  {p \in (1..Len(rs1)) \X (1..Len(rs2)) : Overlap(rs1[p[1]], rs2[p[2]])}

\* C8: intersect(A,B) holds exactly the addresses that lie in a range of A
\* and in a range of B; the ranges it yields are the intervals
\* [max(starts), min(ends)] of the overlapping range pairs, one per pair, in
\* ascending order of start; and it yields none if and only if A and B share
\* no address.
C8_Intersect ==
  last.op = "intersect" =>
    LET rsA == Ranges(sets[last.a])
        rsB == Ranges(sets[last.b])
        rsR == Ranges(Returned)
        OP  == OverlappingPairs(rsA, rsB)
    IN  /\ CoveredBy(rsR) = CoveredBy(rsA) \cap CoveredBy(rsB)
        /\ \A v \in Addr \X Addr :
             Cardinality({k \in 1..Len(rsR) : <<rsR[k].start, rsR[k].end>> = v})
               = Cardinality({p \in OP : PairMeet(rsA[p[1]], rsB[p[2]]) = v})
        /\ \A k, l \in 1..Len(rsR) : k < l => rsR[k].start <= rsR[l].start
        /\ (Len(rsR) = 0) <=> (CoveredBy(rsA) \cap CoveredBy(rsB) = {})

\* C8 witness: intersect of two different objects, each holding disjoint and
\* non-adjacent ranges, returned two ranges (as {[0,0],[2,2]} and {[0,2]} do)
C8_Witness ==
  /\ last.op = "intersect"
  /\ last.a # last.b
  /\ C1_Disjointness
  /\ Len(Ranges(Returned)) >= 2
  /\ RangeSet(Returned) # RangeSet(sets[last.b])

(* ---- C9 ---- *)

\* C9: union and intersect are pure: a call returns an AddressSet and leaves
\* the tree and the address_count of both operands as they were, also when
\* the two operands are the same object.
C9_AlgebraPure ==
  [][last'.op \in {"union", "intersect"} => (sets' = sets /\ last'.res # <<>>)]_vars

\* C9 witness: union or intersect was called on an object with itself, the
\* object holds ranges and so does the returned set
C9_Witness ==
  /\ last.op \in {"union", "intersect"}
  /\ last.a = last.b
  /\ Size(sets[last.a]) >= 2
  /\ Size(Returned) >= 2

(* ---- C10 ---- *)

\* C10: AddressRange with end < start is always rejected with an error and
\* never swapped: such a construction raises ValueError, no add is made with
\* such a range, and no range with end < start is stored in a tree or
\* yielded by a set or by the result of union or intersect.
C10_InvalidRangeRejected ==
  /\ last.op = "AddressRange" => (last.err = "ValueError" /\ last.end < last.start)
  /\ last.op = "add" => (last.err = "none" /\ last.start <= last.end)
  /\ \A o \in Objs :
       /\ \A n \in NodeIds(sets[o].tree) :
            sets[o].tree.node[n].key <= sets[o].tree.node[n].value
       /\ \A k \in 1..Len(Ranges(sets[o])) :
            Ranges(sets[o])[k].err = "none" /\
            Ranges(sets[o])[k].start <= Ranges(sets[o])[k].end
  /\ last.res # <<>> =>
       \A k \in 1..Len(Ranges(Returned)) :
         Ranges(Returned)[k].err = "none" /\
         Ranges(Returned)[k].start <= Ranges(Returned)[k].end

\* C10 witness: a construction with end < start was rejected while the sets
\* hold ranges
C10_Witness ==
  /\ last.op = "AddressRange"
  /\ last.err = "ValueError"
  /\ last.end < last.start
  /\ Size(sets["A"]) >= 1
  /\ Size(sets["B"]) >= 1


(* ---- C11 ---- *)

\* the argument combinations contains supports: (Address), (Address,
\* Address) and (AddressSetView)
Supported(args) ==
  \/ Len(args) = 1 /\ args[1].type \in {"Address", "AddressSet"}
  \/ Len(args) = 2 /\ args[1].type = "Address" /\ args[2].type = "Address"

\* C11: a call of contains with an argument combination that is not
\* (Address), (Address, Address) or (AddressSetView) raises TypeError, which
\* is not the error an invalid range raises (ValueError), returns nothing,
\* and leaves the tree and the count of every set as they were; a supported
\* combination raises nothing.
C11_UnsupportedQuery ==
  [][last'.op = "contains" =>
       IF Supported(last'.b)
         THEN last'.err = "none" /\ last'.res # <<>>
         ELSE /\ last'.err = "TypeError"
              /\ last'.err # AddressRange(1, 0).err
              /\ last'.res = <<>>
              /\ sets' = sets]_vars

\* C11 witness: contains was called with two sets on a set that holds
\* ranges, and raised TypeError
C11_Witness ==
  /\ last.op = "contains"
  /\ last.b = <<SetArg("B"), SetArg("B")>>
  /\ last.err = "TypeError"
  /\ last.a = "A"
  /\ Size(sets["A"]) >= 2

(* ---- C12 ---- *)

\* C12: contains(start, end) is true if and only if every address of
\* [start, end] lies inside a range that was added, and contains(other) is
\* true if and only if every address of every range of other does.  The
\* per-address loop asks contains(addr), whose search misses stored ranges
\* that overlap (C1, C5), so this fails.
C12_ContainsRangeAndSet ==
  /\ (last.op = "contains" /\ Len(last.b) = 2 /\ Supported(last.b)) =>
       (last.res[1] <=>
          \A x \in last.b[1].offset..last.b[2].offset : x \in Covered(sets[last.a]))
  /\ (last.op = "contains" /\ Len(last.b) = 1 /\ last.b[1].type = "AddressSet") =>
       (last.res[1] <=> Covered(sets[last.b[1].obj]) \subseteq Covered(sets[last.a]))


(* ---- C13 ---- *)

\* the addresses an object returned by trim_start or trim_end holds: those
\* its ranges cover if it is an AddressSet with a tree, none if it is the
\* attribute-less AddressSet of address_set_view.py
HeldBy(S) == IF "tree" \in DOMAIN S THEN Covered(S) ELSE {}

\* C13: trim_start(S, addr) returns a set that holds exactly the addresses
\* of S strictly greater than addr, and trim_end(S, addr) one that holds
\* exactly the addresses of S strictly less than addr.  On a set that holds
\* a range the call raises AttributeError (Address has no compare_to), and
\* the add it would call is a stub that stores nothing, so this fails.
C13_Trim ==
  /\ last.op = "trim_start" =>
       /\ last.err = "none"
       /\ HeldBy(Returned) = {x \in Covered(sets[last.a]) : x > last.start}
  /\ last.op = "trim_end" =>
       /\ last.err = "none"
       /\ HeldBy(Returned) = {x \in Covered(sets[last.a]) : x < last.start}

(* ---- C14 ---- *)

\* C14: get_address_count_before(addr) returns the number of addresses of
\* the set that are strictly less than addr.  On a set that holds a range
\* the call raises AttributeError (Address has no compare_to), so this
\* fails.
C14_CountBefore ==
  last.op = "get_address_count_before" =>
    /\ last.err = "none"
    /\ last.res[1] = Cardinality({x \in Covered(sets[last.a]) : x < last.start})


(* ---- C15 ---- *)

\* the numbers of black real nodes on the paths from node n down to a nil
\* link
RECURSIVE BlackCounts(_, _)
BlackCounts(t, n) ==
  IF n = NIL
    THEN {0}
    ELSE {c + (IF t.node[n].color = BLACK THEN 1 ELSE 0) :
            c \in BlackCounts(t, t.node[n].left) \cup BlackCounts(t, t.node[n].right)}

\* the number of nodes on the longest path from node n down to a nil link
RECURSIVE Height(_, _)
Height(t, n) ==
  IF n = NIL THEN 0
  ELSE 1 + max(Height(t, t.node[n].left), Height(t, t.node[n].right))

RECURSIVE Pow2(_)
Pow2(k) == IF k = 0 THEN 1 ELSE 2 * Pow2(k - 1)

\* the tree of the set the growing program adds to
TreeA == sets["A"].tree

\* C15: after every RedBlackTree.insert the root is black, no red node has
\* a red child, every path from the root to a nil link passes the same
\* number of black nodes, and the height h of a tree of n nodes is at most
\* 2*log2(n+1), that is 2^h <= (n+1)^2.
C15_RedBlack ==
  /\ TreeA.node[TreeA.root].color = BLACK
  /\ \A n \in NodeIds(TreeA) :
       TreeA.node[n].color = RED =>
         /\ TreeA.node[TreeA.node[n].left].color = BLACK
         /\ TreeA.node[TreeA.node[n].right].color = BLACK
  /\ Cardinality(BlackCounts(TreeA, TreeA.root)) = 1
  /\ Pow2(Height(TreeA, TreeA.root)) <=
       (Cardinality(NodeIds(TreeA)) + 1) * (Cardinality(NodeIds(TreeA)) + 1)

\* C15 witness: an insert has ended on a tree of at least seven nodes that
\* has red nodes and nodes on four levels
C15_Witness ==
  /\ last.op = "add"
  /\ Cardinality(NodeIds(TreeA)) >= 7
  /\ Height(TreeA, TreeA.root) >= 4
  /\ \E n \in NodeIds(TreeA) : TreeA.node[n].color = RED


(* ---- C16 ---- *)

\* C16: in every reachable state the in-order traversal yields the stored
\* ranges in strictly increasing, non-overlapping order: each yielded range
\* starts after the one before it ends.  The traversal is in non-decreasing
\* order of key, but add stores overlapping and equal ranges as nodes of
\* their own (C1), so this fails.
C16_InorderDisjoint ==
  \A o \in Objs : \A k \in 1..(Len(Ranges(sets[o])) - 1) :
    Ranges(sets[o])[k].end < Ranges(sets[o])[k + 1].start


(* ---- C17 ---- *)

\* the stored nodes of tree t whose range [key, value] holds address a
Holders(t, a) == {n \in NodeIds(t) : t.node[n].key <= a /\ a <= t.node[n].value}

\* no two stored nodes of tree t share an address
PairwiseDisjoint(t) ==
  \A m, n \in NodeIds(t) :
    m # n => (t.node[m].value < t.node[n].key \/ t.node[n].value < t.node[m].key)

\* C17: if the ranges inserted into the tree are pairwise disjoint, then
\* for every address a find_range_containing(a) returns the one stored node
\* with key <= a <= value if there is one, and None otherwise, whatever the
\* insertion order and the rotations were.
C17_FindUnique ==
  PairwiseDisjoint(TreeA) =>
    \A a \in DisjAddr :
      IF Holders(TreeA, a) # {}
        THEN Holders(TreeA, a) = {find_range_containing(TreeA, a)}
        ELSE find_range_containing(TreeA, a) = None

\* C17 witness: an add has ended on a tree of at least five pairwise disjoint
\* ranges, one of them longer than one address, that leaves an address
\* uncovered and holds another in a node that is not the root
C17_Witness ==
  /\ last.op = "add"
  /\ PairwiseDisjoint(TreeA)
  /\ Cardinality(NodeIds(TreeA)) >= 5
  /\ \E n \in NodeIds(TreeA) : TreeA.node[n].key < TreeA.node[n].value
  /\ \E a \in DisjAddr : find_range_containing(TreeA, a) = None
  /\ \E a \in DisjAddr : find_range_containing(TreeA, a) \notin {None, TreeA.root}


(* ---- C18 ---- *)

\* C18: the sentinel links stay consistent: the nil node is black and its
\* left, right and parent links point to nil; root.parent is nil; every
\* link of every node is a node of the tree or the nil sentinel, never
\* None; and the parent pointer of every non-nil child is the node that
\* links to it.
C18_SentinelLinks ==
  /\ TreeA.node[NIL].color = BLACK
  /\ TreeA.node[NIL].left = NIL
  /\ TreeA.node[NIL].right = NIL
  /\ TreeA.node[NIL].parent = NIL
  /\ TreeA.root \in DOMAIN TreeA.node
  /\ TreeA.node[TreeA.root].parent = NIL
  /\ \A n \in NodeIds(TreeA) :
       /\ TreeA.node[n].left \in DOMAIN TreeA.node
       /\ TreeA.node[n].right \in DOMAIN TreeA.node
       /\ TreeA.node[n].parent \in DOMAIN TreeA.node
       /\ TreeA.node[n].left # NIL => TreeA.node[TreeA.node[n].left].parent = n
       /\ TreeA.node[n].right # NIL => TreeA.node[TreeA.node[n].right].parent = n

\* C18 witness: an insert has ended on a tree of eight nodes whose root is
\* not the node inserted first (rotations have moved the root) and has a
\* child on either side
C18_Witness ==
  /\ last.op = "add"
  /\ Cardinality(NodeIds(TreeA)) >= 8
  /\ TreeA.root # 1
  /\ TreeA.node[TreeA.root].left # NIL
  /\ TreeA.node[TreeA.root].right # NIL


(* ---- C19 ---- *)

\* how often the pair v = <<start, end>> occurs among the ranges rs
Occurrences(rs, v) ==
  Cardinality({k \in 1..Len(rs) : <<rs[k].start, rs[k].end>> = v})

\* C19: every add inserts exactly one node and loses none: a call
\* add([start, end]) makes the in-order traversal one range longer, and the
\* multiset of <<start, end>> pairs it yields is the one it yielded before
\* plus the pair passed to add, also when that start is already stored.
\* The set starts empty, so after n adds the traversal yields exactly the n
\* ranges passed.
C19_NoNodeLost ==
  [][last'.op = "add" =>
       \A before \in {Ranges(sets["A"])} : \A after \in {Ranges(sets'["A"])} :
         /\ Len(after) = Len(before) + 1
         /\ \A v \in Addr \X Addr :
              Occurrences(after, v) =
                Occurrences(before, v) +
                  (IF v = <<last'.start, last'.end>> THEN 1 ELSE 0)]_vars

\* C19 witness: the eighth add has ended, and the tree yields eight ranges,
\* at least three of them with the start of the range just added
C19_Witness ==
  /\ last.op = "add"
  /\ Len(Ranges(sets["A"])) = 8
  /\ Occurrences(Ranges(sets["A"]), <<last.start, last.end>>) >= 3


(* ---- C20 ---- *)

\* the number of nodes of the subtree of t rooted at n
RECURSIVE SubtreeSize(_, _)
SubtreeSize(t, n) ==
  IF n = NIL THEN 0
  ELSE 1 + SubtreeSize(t, t.node[n].left) + SubtreeSize(t, t.node[n].right)

\* the number of parent links from node n up to the root of t
RECURSIVE Depth(_, _)
Depth(t, n) == IF t.node[n].parent = NIL THEN 0 ELSE 1 + Depth(t, t.node[n].parent)

\* the tree that inserting the keys of the nodes 1..k of t, in the order
\* the nodes were created, gives
RECURSIVE Replayed(_, _)
Replayed(t, k) ==
  IF k = 0 THEN RedBlackTree
  ELSE CHOOSE r \in
         {insert(u, t.node[k].key, t.node[k].value) :
            u \in {Replayed(t, k - 1)}} : TRUE

\* a bound on the loop iterations and statements a call in progress has
\* still to make: in the descent loop the size of the subtree at x, one
\* for linking z, and the most the fixup loop can then need; in the fixup
\* loop the depth of z while z.parent is red, and one for the return
Remaining ==
  IF last.pc = "descend"
    THEN SubtreeSize(StepTree, last.x) + Cardinality(NodeIds(StepTree)) + 3
  ELSE IF last.pc = "fixup"
    THEN IF StepTree.node[StepTree.node[last.z].parent].color = RED
           THEN Depth(StepTree, last.z) + 2
           ELSE 1
  ELSE 0

\* a call in progress can always make its next step
C20_Progress == [](last.pc # "done" => ENABLED Running)

\* every step of a call in progress lowers the bound Remaining, a natural
\* number that is 0 only when the call has ended
C20_Ends ==
  [][last.pc # "done" =>
       /\ Remaining \in Nat
       /\ Remaining' \in Nat
       /\ Remaining' < Remaining
       /\ (Remaining' = 0) = (last'.pc = "done")]_vars

\* every iteration of the descent loop moves x to a strictly smaller
\* subtree, and the loop runs until x is nil
C20_Descent ==
  [][(last.pc = "descend" /\ last'.pc = "descend") =>
       /\ last.x # NIL
       /\ sets' = sets
       /\ SubtreeSize(StepTree, last'.x) < SubtreeSize(StepTree, last.x)]_vars

\* every iteration of the fixup loop either moves z two levels up or leaves
\* z with a black parent, which ends the loop
C20_Fixup ==
  [][(last.pc = "fixup" /\ last'.pc = "fixup") =>
       \/ Depth(sets'["A"].tree, last'.z) = Depth(StepTree, last.z) - 2
       \/ sets'["A"].tree.node[sets'["A"].tree.node[last'.z].parent].color = BLACK]_vars

\* a call that has ended leaves the tree that RedBlackTree.insert gives
C20_Result ==
  [](last.pc = "done" =>
       StepTree = Replayed(StepTree, Cardinality(NodeIds(StepTree))))

\* C20: every add call terminates: the descent loop of insert reaches nil
\* (each iteration moves x into a strictly smaller subtree), the fixup loop
\* ends after finitely many iterations (each either moves z two levels up
\* or leaves z.parent black), a call in progress can always make its next
\* step and every such step lowers a natural-number bound on the steps left,
\* and the call ends with the tree that insert gives.
C20_Terminates ==
  C20_Progress /\ C20_Ends /\ C20_Descent /\ C20_Fixup /\ C20_Result

\* C20 witness: a call has ended whose descent loop made at least three
\* iterations and whose fixup loop made at least two
C20_Witness ==
  /\ last.pc = "done"
  /\ last.steps >= 3
  /\ last.iters >= 2

====
